---- MODULE Spec2Model ----
(***************************************************************************)
(* The data-enrichment agent of src/enrichment_agent/graph.ts: a LangGraph *)
(* state graph with the nodes callAgentModel, reflect and tools, the       *)
(* conditional edges routeAfterAgent and routeAfterChecker, and the tool   *)
(* node of tools.ts (createToolNode).                                      *)
(*                                                                         *)
(* One action of the model is one super-step of the graph: the node's      *)
(* function, the channel reducers applied to the update it returns, and    *)
(* the edge function that picks the next node.  The language model, the    *)
(* judgment model and the tools are the environment: their answers are     *)
(* drawn from small sets.                                                  *)
(***************************************************************************)
EXTENDS Integers, Sequences, FiniteSets, TLC

VARIABLES
    node,          \* the node the graph runs next ("__end__": the run is over)
    messages,      \* state.messages, the conversation
    info,          \* state.info, the candidate record
    loopStep,      \* state.loopStep
    maxLoops,      \* configuration.maxLoops of this run
    modelSetsIds,  \* whether the chat model of this run gives its tool calls an id
    modelOutputs,  \* history: the raw tool_calls of every model response so far
    judgments,     \* history: every answer of the judgment model so far
    completed,     \* the calls of the tool node's batch that have settled, in the
                   \* order they settled, each with how it settled
    topic,         \* state.topic, given by the caller
    extractionSchema,  \* state.extractionSchema, given by the caller
    runs,          \* the runs of the graph that are under way side by side, each
                   \* with a state of its own (none where one run is looked at)
    utility        \* the call of a function of utils.ts or configuration.ts, or
                   \* the invocation of a tool, that is looked at on its own: the
                   \* function, its arguments and, once it has returned, its result

vars == <<node, messages, info, loopStep, maxLoops, modelSetsIds, modelOutputs,
          judgments, completed, topic, extractionSchema, runs, utility>>

----------------------------------------------------------------------------
(* Bounds of the model *)

\* callAgentModel is not run again once loopStep has reached MaxSteps
MaxSteps == 3

\* configuration.maxLoops is drawn from 1..MaxLoopsBound
MaxLoopsBound == 2

\* configuration.maxInfoToolCalls of the runs: no node and no edge of the graph
\* reads it
maxInfoToolCalls == 1

\* the numbers of tool calls one model response may carry
CallCounts == {0, 1, 2}

\* the topics and the schemas a caller may start a run with
Topics == {"LangChain"}

Schemas == {"enrichmentSchema"}

\* the records the model may submit as the arguments of an Info call
Records == {"r1", "r2"}

----------------------------------------------------------------------------
(* Values *)

\* JavaScript's undefined (state.info before any submission, a call without id)
Undefined == "undefined"

\* no run under way beside the one the variables above describe
NoRuns == << >>

\* no function is looked at on its own
NoUtility == << >>

\* the empty string that stands in for a missing call id (call.id ?? "")
EmptyString == ""

\* the ids a chat model gives its tool calls, in the order it makes them
ToolCallIds ==
    << "call_1", "call_2", "call_3", "call_4", "call_5", "call_6",
       "call_7", "call_8", "call_9", "call_10", "call_11", "call_12" >>

\* the tools the tool node knows (createToolNode's list)
RegisteredTools == {"search", "scrapeWebsite"}

\* the names a model response may give: a registered tool, the Info tool that
\* submits the record, and a name that is no tool at all
ToolNames == {"search", "Info", "translate"}

\* the arguments a call may carry: a record for Info, a query otherwise
ArgsOf(name) == IF name = "Info" THEN Records ELSE {"query"}

\* the calls a response may carry, before the model's ids are put on them
CallShapes == UNION { { [name |-> n, args |-> a] : a \in ArgsOf(n) } : n \in ToolNames }

\* the raw responses: sequences of 0, 1 or 2 call shapes
ResponseShapes == UNION { [1..k -> CallShapes] : k \in CallCounts }

----------------------------------------------------------------------------
(* Messages *)

AIMessage(tool_calls) == [type |-> "ai", tool_calls |-> tool_calls]

HumanMessage(content) == [type |-> "human", content |-> content]

ToolMessage(tool_call_id, name, status, content) ==
    [type |-> "tool", tool_call_id |-> tool_call_id, name |-> name,
     status |-> status, content |-> content]

Last(seq) == seq[Len(seq)]

\* the numbers of the tool calls all model responses so far carried
RECURSIVE NumCalls(_)
NumCalls(outputs) ==
    IF outputs = <<>> THEN 0
    ELSE Len(Last(outputs)) + NumCalls(SubSeq(outputs, 1, Len(outputs) - 1))

\* the tool_calls of a model response: the shapes, with the ids the chat model
\* gives them (a fresh id each) or without any
ModelResponse(shape, outputs) ==
    [i \in 1..Len(shape) |->
        [id   |-> IF modelSetsIds THEN ToolCallIds[NumCalls(outputs) + i] ELSE Undefined,
         name |-> shape[i].name,
         args |-> shape[i].args]]

\* call.id ?? ""  and  tool_calls?.[0]?.id || ""
IdOrEmpty(id) == IF id = Undefined THEN EmptyString ELSE id

----------------------------------------------------------------------------
(* Channels of the state: what an update a node returns does to them *)

\* a variant of messagesStateReducer: the update takes the place of the
\* conversation, as it does in a channel without reducer
messagesStateReducer_Overwrites(left, right) == right

\* messages: messagesStateReducer appends the new messages
messagesStateReducer(left, right) == left \o right

\* loopStep: the update is added to the counter
loopStepReducer(left, right) == left + right

----------------------------------------------------------------------------
(* callAgentModel *)

\* (response?.tool_calls && response.tool_calls?.length) || 0
HasToolCalls(tool_calls) == Len(tool_calls) # 0

IsInfo(tool_call) == tool_call.name = "Info"

HasInfoCall(tool_calls) == \E i \in 1..Len(tool_calls) : IsInfo(tool_calls[i])

\* a variant of FirstInfoArgs: the loop does not stop at the first Info call, so
\* that info takes the args of the last one
FirstInfoArgs_LastInfoArgs(tool_calls) ==
    IF HasInfoCall(tool_calls)
    THEN LET last == CHOOSE i \in 1..Len(tool_calls) :
                         /\ IsInfo(tool_calls[i])
                         /\ \A j \in (i + 1)..Len(tool_calls) : ~IsInfo(tool_calls[j])
         IN  tool_calls[last].args
    ELSE Undefined

\* the loop over response.tool_calls: info takes the args of the first Info call
FirstInfoArgs(tool_calls) ==
    IF HasInfoCall(tool_calls)
    THEN LET first == CHOOSE i \in 1..Len(tool_calls) :
                          /\ IsInfo(tool_calls[i])
                          /\ \A j \in 1..(i - 1) : ~IsInfo(tool_calls[j])
         IN  tool_calls[first].args
    ELSE Undefined

\* a variant of KeptToolCalls: the calls that come after the first Info call are
\* dropped, those before it are kept
KeptToolCalls_KeepsUpToInfo(tool_calls) ==
    IF \E i \in 1..Len(tool_calls) : tool_calls[i].name = "Info"
    THEN SubSeq(tool_calls, 1,
                CHOOSE i \in 1..Len(tool_calls) :
                    /\ tool_calls[i].name = "Info"
                    /\ \A j \in 1..(i - 1) : tool_calls[j].name # "Info")
    ELSE tool_calls

\* a variant of KeptToolCalls: the other calls are not dropped
KeptToolCalls_KeepsAll(tool_calls) == tool_calls

\* response.tool_calls after the loop: when an Info call is there, only the
\* Info calls are kept
KeptToolCalls(tool_calls) ==
    IF HasInfoCall(tool_calls) THEN SelectSeq(tool_calls, IsInfo) ELSE tool_calls

\* a variant of ResponseMessages: the request to call a tool is not added
ResponseMessages_NoReminder(tool_calls) == << AIMessage(KeptToolCalls(tool_calls)) >>

\* responseMessages: the response and, when it carries no tool call, the request
\* to call a tool
ResponseMessages(tool_calls) ==
    IF HasToolCalls(tool_calls)
    THEN << AIMessage(KeptToolCalls(tool_calls)) >>
    ELSE << AIMessage(tool_calls),
            HumanMessage("Please respond by calling one of the provided tools.") >>

\* a variant of LoopStepUpdate: only a response with exactly one call counts
LoopStepUpdate_WellFormedOnly(tool_calls) == IF Len(tool_calls) = 1 THEN 1 ELSE 0

\* the loopStep of the update callAgentModel returns, whatever the response
LoopStepUpdate(tool_calls) == 1

\* a variant of routeAfterAgent: the name of the first call is never found to be
\* that of the Info tool
routeAfterAgent_NeverReflects(msgs) ==
    IF Last(msgs).type # "ai" THEN "callAgentModel" ELSE "tools"

\* a variant of routeAfterAgent: the check that the last message is an AI message
\* is left out, and a message without tool calls goes to reflect
routeAfterAgent_ReflectsWithoutCalls(msgs) ==
    LET lastMessage == Last(msgs) IN
    IF lastMessage.type # "ai" THEN "reflect"
    ELSE IF lastMessage.tool_calls[1].name = "Info" THEN "reflect"
    ELSE "tools"

\* a variant of routeAfterAgent: a response without calls ends the run
routeAfterAgent_EndsWithoutCalls(msgs) ==
    LET lastMessage == Last(msgs) IN
    IF lastMessage.type # "ai" THEN "__end__"
    ELSE IF Len(lastMessage.tool_calls) > 0 /\ lastMessage.tool_calls[1].name = "Info"
         THEN "reflect"
         ELSE "tools"

\* routeAfterAgent, on the state after callAgentModel's update
routeAfterAgent(msgs) ==
    LET lastMessage == Last(msgs) IN
    IF lastMessage.type # "ai" THEN "callAgentModel"
    ELSE IF Len(lastMessage.tool_calls) > 0 /\ lastMessage.tool_calls[1].name = "Info"
         THEN "reflect"
         ELSE "tools"

----------------------------------------------------------------------------
(* reflect *)

\* what the judgment model may answer (InfoIsSatisfactory)
Judgments == [is_satisfactory : BOOLEAN]

\* a variant of ReflectToolCallId: the id of the last call of the message
ReflectToolCallId_LastCall(lastMessage) ==
    IF Len(lastMessage.tool_calls) > 0
    THEN IdOrEmpty(Last(lastMessage.tool_calls).id)
    ELSE EmptyString

\* tool_call_id of the message reflect returns: lastMessage.tool_calls?.[0]?.id || ""
ReflectToolCallId(lastMessage) ==
    IF Len(lastMessage.tool_calls) > 0
    THEN IdOrEmpty(lastMessage.tool_calls[1].id)
    ELSE EmptyString

\* a variant of ReflectAccepts: the judgment is not looked at
ReflectAccepts_IgnoresJudgment(response, presumedInfo) == presumedInfo # Undefined

\* a variant of ReflectAccepts: whether there is a record is not looked at
ReflectAccepts_IgnoresInfo(response, presumedInfo) == response.is_satisfactory

\* response.is_satisfactory && presumedInfo
ReflectAccepts(response, presumedInfo) ==
    response.is_satisfactory /\ presumedInfo # Undefined

\* a variant of ReflectMessages: the accepting update has info and no message
ReflectMessages_AcceptsWithInfoOnly(response, presumedInfo, lastMessage) ==
    IF response.is_satisfactory /\ presumedInfo # Undefined
    THEN << >>
    ELSE << ToolMessage(IF Len(lastMessage.tool_calls) > 0
                        THEN IdOrEmpty(lastMessage.tool_calls[1].id)
                        ELSE EmptyString,
                        "Info", "error",
                        "Unsatisfactory response: improvement_instructions") >>

\* the messages of the update reflect returns
ReflectMessages(response, presumedInfo, lastMessage) ==
    IF ReflectAccepts(response, presumedInfo)
    THEN << ToolMessage(ReflectToolCallId(lastMessage), "Info", "success", "reason") >>
    ELSE << ToolMessage(ReflectToolCallId(lastMessage), "Info", "error",
                        "Unsatisfactory response: improvement_instructions") >>

\* a variant of ReflectInfo: the rejecting update empties info
ReflectInfo_ClearsOnRejection(response, stateInfo) ==
    IF ReflectAccepts(response, stateInfo) THEN stateInfo ELSE Undefined

\* state.info after reflect's update: the accepting update writes presumedInfo,
\* which is state.info; the rejecting update has no info key and leaves the
\* channel as it is
ReflectInfo(response, stateInfo) ==
    LET presumedInfo == stateInfo IN
    IF ReflectAccepts(response, presumedInfo) THEN presumedInfo ELSE stateInfo

\* a variant of routeAfterChecker: the status of the result turn is not looked at
routeAfterChecker_NoStatusCheck(msgs, stateInfo, step, configMaxLoops) ==
    IF step < configMaxLoops THEN "callAgentModel" ELSE "__end__"

\* a variant of routeAfterChecker: loopStep is not compared with maxLoops
routeAfterChecker_NoBudgetCheck(msgs, stateInfo, step, configMaxLoops) ==
    IF stateInfo = Undefined THEN "callAgentModel"
    ELSE IF Last(msgs).type # "tool" THEN "__error__"
    ELSE IF Last(msgs).status = "error" THEN "callAgentModel"
    ELSE "__end__"

\* routeAfterChecker, on the state after reflect's update
routeAfterChecker(msgs, stateInfo, step, configMaxLoops) ==
    LET lastMessage == Last(msgs) IN
    IF step < configMaxLoops
    THEN IF stateInfo = Undefined THEN "callAgentModel"
         ELSE IF lastMessage.type # "tool" THEN "__error__"
         ELSE IF lastMessage.status = "error" THEN "callAgentModel"
         ELSE "__end__"
    ELSE "__end__"

----------------------------------------------------------------------------
(* tools: the node createToolNode builds *)

\* how the invocation of a tool may end
ToolOutcomes == {"returns", "throws"}

\* a variant of OutcomesOf: a tool that is not there is invoked all the same
OutcomesOf_InvokesMissing(call) == ToolOutcomes

\* how one call of the batch may settle: a tool that tools.find does not find is
\* not invoked, the error is thrown before tool.invoke
OutcomesOf(call) ==
    IF call.name \in RegisteredTools THEN ToolOutcomes ELSE {"notfound"}

\* the calls of the batch (their positions) that have settled
Settled(done) == { done[j].call : j \in 1..Len(done) }

\* how the call at position k has settled
OutcomeOf(done, k) == done[CHOOSE j \in 1..Len(done) : done[j].call = k].outcome

\* the message one call of the batch yields
ToolOutput(call, outcome) ==
    IF call.name \notin RegisteredTools
    THEN ToolMessage(IdOrEmpty(call.id), call.name, "error",
                     "Error: Tool not found. Please fix your mistakes.")
    ELSE IF outcome = "throws"
    THEN ToolMessage(IdOrEmpty(call.id), call.name, "error",
                     "Error: tool failed. Please fix your mistakes.")
    ELSE ToolMessage(IdOrEmpty(call.id), call.name, Undefined, "output")

\* a variant of ToolOutputs: one invocation that throws fails the whole batch
ToolOutputs_ThrowFailsBatch(tool_calls, outcomes) ==
    [i \in 1..Len(tool_calls) |->
        IF \E k \in 1..Len(tool_calls) : outcomes[k] = "throws"
        THEN ToolOutput(tool_calls[i], "throws")
        ELSE ToolOutput(tool_calls[i], outcomes[i])]

\* a variant of ToolOutputs: the outputs come in the order the calls settled
ToolOutputs_SettlingOrder(tool_calls, outcomes) ==
    [i \in 1..Len(tool_calls) |->
        ToolOutput(tool_calls[completed[i].call], outcomes[completed[i].call])]

\* a variant of ToolOutputs: the outputs come in the reverse of the call order
ToolOutputs_Reversed(tool_calls, outcomes) ==
    [i \in 1..Len(tool_calls) |->
        ToolOutput(tool_calls[Len(tool_calls) + 1 - i], outcomes[Len(tool_calls) + 1 - i])]

\* outputs: Promise.all over the calls of the last message, in call order
ToolOutputs(tool_calls, outcomes) ==
    [i \in 1..Len(tool_calls) |-> ToolOutput(tool_calls[i], outcomes[i])]

----------------------------------------------------------------------------
(* The graph *)

Init ==
    /\ node = "callAgentModel"
    /\ topic \in Topics
    /\ extractionSchema \in Schemas
    /\ runs = NoRuns
    /\ utility = NoUtility
    /\ messages = <<>>
    /\ info = Undefined
    /\ loopStep = 0
    /\ maxLoops \in 1..MaxLoopsBound
    /\ modelSetsIds \in BOOLEAN
    /\ modelOutputs = <<>>
    /\ judgments = <<>>
    /\ completed = <<>>

\* node callAgentModel, then the conditional edge routeAfterAgent
CallAgentModel ==
    /\ node = "callAgentModel"
    /\ UNCHANGED <<topic, extractionSchema, runs, utility>>
    /\ loopStep < MaxSteps
    /\ \E shape \in ResponseShapes :
         LET tool_calls == ModelResponse(shape, modelOutputs)
             newMessages == messagesStateReducer(messages, ResponseMessages(tool_calls))
         IN  /\ modelOutputs' = Append(modelOutputs, tool_calls)
             /\ messages' = newMessages
             /\ info' = FirstInfoArgs(tool_calls)
             /\ loopStep' = loopStepReducer(loopStep, LoopStepUpdate(tool_calls))
             /\ node' = routeAfterAgent(newMessages)
    /\ completed' = <<>>
    /\ UNCHANGED <<maxLoops, modelSetsIds, judgments>>

\* a variant of Reflect: a last message that is no AI message is not an error,
\* the model is asked again
Reflect_RetriesOnBadEntry ==
    /\ node = "reflect"
    /\ UNCHANGED <<topic, extractionSchema, runs, utility>>
    /\ IF Last(messages).type # "ai"
       THEN /\ node' = "callAgentModel"
            /\ UNCHANGED <<messages, info, judgments>>
       ELSE \E response \in Judgments :
              LET newMessages ==
                      messagesStateReducer(messages,
                          ReflectMessages(response, info, Last(messages)))
                  newInfo == ReflectInfo(response, info)
              IN  /\ judgments' = Append(judgments, response)
                  /\ messages' = newMessages
                  /\ info' = newInfo
                  /\ node' = routeAfterChecker(newMessages, newInfo, loopStep, maxLoops)
    /\ UNCHANGED <<loopStep, maxLoops, modelSetsIds, modelOutputs, completed>>

\* node reflect, then the conditional edge routeAfterChecker
Reflect ==
    /\ node = "reflect"
    /\ UNCHANGED <<topic, extractionSchema, runs, utility>>
    /\ IF Last(messages).type # "ai"
       THEN /\ node' = "__error__"
            /\ UNCHANGED <<messages, info, judgments>>
       ELSE \E response \in Judgments :
              LET newMessages ==
                      messagesStateReducer(messages,
                          ReflectMessages(response, info, Last(messages)))
                  newInfo == ReflectInfo(response, info)
              IN  /\ judgments' = Append(judgments, response)
                  /\ messages' = newMessages
                  /\ info' = newInfo
                  /\ node' = routeAfterChecker(newMessages, newInfo, loopStep, maxLoops)
    /\ UNCHANGED <<loopStep, maxLoops, modelSetsIds, modelOutputs, completed>>

\* node tools, while Promise.all waits: the calls of the last message are all in
\* flight at once, and one of them that has not settled yet settles; nothing of
\* the state changes
ToolCallSettles ==
    /\ node = "tools"
    /\ UNCHANGED <<topic, extractionSchema, runs, utility>>
    /\ LET tool_calls == Last(messages).tool_calls IN
       \E k \in (1..Len(tool_calls)) \ Settled(completed) :
           \E outcome \in OutcomesOf(tool_calls[k]) :
               completed' = Append(completed, [call |-> k, outcome |-> outcome])
    /\ UNCHANGED <<node, messages, info, loopStep, maxLoops, modelSetsIds,
                   modelOutputs, judgments>>

\* a variant of ToolNode: the calls run without the try/catch around them, so
\* that a tool that throws makes the node throw
ToolNode_Rethrows ==
    /\ node = "tools"
    /\ UNCHANGED <<topic, extractionSchema, runs, utility>>
    /\ LET tool_calls == Last(messages).tool_calls
           outcomes == [k \in 1..Len(tool_calls) |-> OutcomeOf(completed, k)]
       IN  /\ Settled(completed) = 1..Len(tool_calls)
           /\ IF \E k \in 1..Len(tool_calls) : outcomes[k] # "returns"
              THEN /\ node' = "__error__"
                   /\ messages' = messages
              ELSE /\ node' = "callAgentModel"
                   /\ messages' = messagesStateReducer(messages,
                                      ToolOutputs(tool_calls, outcomes))
    /\ UNCHANGED <<info, loopStep, maxLoops, modelSetsIds, modelOutputs, judgments,
                   completed>>

\* a variant of ToolNode: the update of the node has a loopStep of 1 as well
ToolNode_CountsStep ==
    /\ node = "tools"
    /\ LET tool_calls == Last(messages).tool_calls
           outcomes == [k \in 1..Len(tool_calls) |-> OutcomeOf(completed, k)]
       IN  /\ Settled(completed) = 1..Len(tool_calls)
           /\ messages' = messagesStateReducer(messages, ToolOutputs(tool_calls, outcomes))
    /\ node' = "callAgentModel"
    /\ loopStep' = loopStepReducer(loopStep, 1)
    /\ UNCHANGED <<info, maxLoops, modelSetsIds, modelOutputs, judgments,
                   completed, topic, extractionSchema, runs, utility>>

\* node tools, once every call has settled: Promise.all resolves, the node
\* returns its outputs, then the edge tools -> callAgentModel
ToolNode ==
    /\ node = "tools"
    /\ UNCHANGED <<topic, extractionSchema, runs, utility>>
    /\ LET tool_calls == Last(messages).tool_calls
           outcomes == [k \in 1..Len(tool_calls) |-> OutcomeOf(completed, k)]
       IN  /\ Settled(completed) = 1..Len(tool_calls)
           /\ messages' = messagesStateReducer(messages, ToolOutputs(tool_calls, outcomes))
    /\ node' = "callAgentModel"
    /\ UNCHANGED <<info, loopStep, maxLoops, modelSetsIds, modelOutputs, judgments,
                   completed>>

Next == CallAgentModel \/ Reflect \/ ToolCallSettles \/ ToolNode

Spec == Init /\ [][Next]_vars

----------------------------------------------------------------------------
(* reflect and routeAfterChecker, on any state.                             *)
(*                                                                          *)
(* What the node does with a state is a matter of its code alone, also for  *)
(* the states the edges of the graph never hand to it: here the node is     *)
(* entered on a conversation of one message of any kind, with any info and  *)
(* any loopStep.                                                            *)

\* the messages the conversation may end with when reflect is entered
EntryMessages ==
    { AIMessage(ModelResponse(shape, << >>)) : shape \in ResponseShapes }
    \cup { HumanMessage("Please respond by calling one of the provided tools.") }
    \cup { ToolMessage(EmptyString, "search", status, "output") :
               status \in {Undefined, "error"} }

ReflectInit ==
    /\ node = "reflect"
    /\ topic \in Topics
    /\ extractionSchema \in Schemas
    /\ runs = NoRuns
    /\ utility = NoUtility
    /\ maxLoops \in 1..MaxLoopsBound
    /\ modelSetsIds \in BOOLEAN
    /\ loopStep \in 0..MaxSteps
    /\ info \in Records \cup {Undefined}
    /\ \E m \in EntryMessages : messages = << m >>
    /\ modelOutputs = <<>>
    /\ judgments = <<>>
    /\ completed = <<>>

ReflectNext == Reflect

ReflectSpec == ReflectInit /\ [][ReflectNext]_vars

----------------------------------------------------------------------------
(* reflect, with the reasons of the judgment.                               *)
(*                                                                          *)
(* InfoIsSatisfactory gives the judgment a list of reasons, which reflect   *)
(* joins into the text of the accepting message and reads for nothing else. *)
(* Here the judgment carries its reasons, as many as the model gave.        *)

\* the number of reasons the description of InfoIsSatisfactory.reason asks for
MinReasons == 3

\* the lists z.array(z.string()) lets through: lists of strings of any length
ReasonLists == { [i \in 1..n |-> "reason"] : n \in 0..MinReasons }

\* what withStructuredOutput(InfoIsSatisfactory) may hand to reflect
ReasonedJudgments == [reason : ReasonLists, is_satisfactory : BOOLEAN]

\* node reflect, then the conditional edge routeAfterChecker, the judgment with
\* its reasons
ReflectReasoned ==
    /\ node = "reflect"
    /\ UNCHANGED <<topic, extractionSchema, runs, utility>>
    /\ IF Last(messages).type # "ai"
       THEN /\ node' = "__error__"
            /\ UNCHANGED <<messages, info, judgments>>
       ELSE \E response \in ReasonedJudgments :
              LET newMessages ==
                      messagesStateReducer(messages,
                          ReflectMessages(response, info, Last(messages)))
                  newInfo == ReflectInfo(response, info)
              IN  /\ judgments' = Append(judgments, response)
                  /\ messages' = newMessages
                  /\ info' = newInfo
                  /\ node' = routeAfterChecker(newMessages, newInfo, loopStep, maxLoops)
    /\ UNCHANGED <<loopStep, maxLoops, modelSetsIds, modelOutputs, completed>>

ReasonedNext == ReflectReasoned

ReasonedSpec == ReflectInit /\ [][ReasonedNext]_vars

----------------------------------------------------------------------------

(* createCorrectionResponse, the node of the graph before the present one   *)
(* that answered a turn routeAfterAgent found malformed; the edge after it  *)
(* led to callAgentModel.  The present graph has no such node.              *)

\* the messages of the update createCorrectionResponse returns
CorrectionMessages(lastMessage) ==
    IF lastMessage.type = "ai"
    THEN [k \in 1..Len(lastMessage.tool_calls) |->
            ToolMessage(IdOrEmpty(lastMessage.tool_calls[k].id),
                        lastMessage.tool_calls[k].name,
                        Undefined,
                        "You must call one, and only one, tool!")]
    ELSE << HumanMessage("You must call one, and only one, tool! You can call the Info tool to finish the task.") >>

\* node createCorrectionResponse, then the edge to callAgentModel
CreateCorrectionResponse ==
    /\ node = "createCorrectionResponse"
    /\ UNCHANGED <<topic, extractionSchema, runs, utility>>
    /\ messages' = messagesStateReducer(messages, CorrectionMessages(Last(messages)))
    /\ node' = "callAgentModel"
    /\ UNCHANGED <<info, loopStep, maxLoops, modelSetsIds, modelOutputs, judgments,
                   completed>>

\* the node is entered on a conversation of one message of any kind, with any
\* info and any loopStep
CorrectionInit ==
    /\ node = "createCorrectionResponse"
    /\ topic \in Topics
    /\ extractionSchema \in Schemas
    /\ runs = NoRuns
    /\ utility = NoUtility
    /\ maxLoops \in 1..MaxLoopsBound
    /\ modelSetsIds \in BOOLEAN
    /\ loopStep \in 0..MaxSteps
    /\ info \in Records \cup {Undefined}
    /\ \E m \in EntryMessages : messages = << m >>
    /\ modelOutputs = <<>>
    /\ judgments = <<>>
    /\ completed = <<>>

CorrectionNext == CreateCorrectionResponse

CorrectionSpec == CorrectionInit /\ [][CorrectionNext]_vars

----------------------------------------------------------------------------
(* The graph, seen through what its routing reads.                          *)
(*                                                                          *)
(* routeAfterAgent, reflect, the tool node and routeAfterChecker read the   *)
(* last message, info, and whether loopStep is below maxLoops; nothing else *)
(* of the state decides which node runs next.  The actions below are the    *)
(* same three nodes with the state cut down to that: the conversation keeps *)
(* its last message only, the counter stops counting at maxLoops, and the   *)
(* histories are not kept.  Runs of any length then stay within finitely    *)
(* many states, so that a run that goes on for ever is a cycle.  The calls   *)
(* of a batch all settle, in whatever order, so the routing sees the tool   *)
(* node as one step.                                                        *)

LastOnly(msgs) == << Last(msgs) >>

AtMost(step, configMaxLoops) == IF step < configMaxLoops THEN step ELSE configMaxLoops

RoutingCallAgentModel ==
    /\ node = "callAgentModel"
    /\ UNCHANGED <<topic, extractionSchema, runs, utility>>
    /\ \E shape \in ResponseShapes :
         LET tool_calls == ModelResponse(shape, modelOutputs)
             newMessages == messagesStateReducer(messages, ResponseMessages(tool_calls))
         IN  /\ messages' = LastOnly(newMessages)
             /\ info' = FirstInfoArgs(tool_calls)
             /\ loopStep' = AtMost(loopStepReducer(loopStep, LoopStepUpdate(tool_calls)),
                                   maxLoops)
             /\ node' = routeAfterAgent(newMessages)
    /\ UNCHANGED <<maxLoops, modelSetsIds, modelOutputs, judgments, completed>>

RoutingReflect ==
    /\ node = "reflect"
    /\ UNCHANGED <<topic, extractionSchema, runs, utility>>
    /\ IF Last(messages).type # "ai"
       THEN /\ node' = "__error__"
            /\ UNCHANGED <<messages, info>>
       ELSE \E response \in Judgments :
              LET newMessages ==
                      messagesStateReducer(messages,
                          ReflectMessages(response, info, Last(messages)))
                  newInfo == ReflectInfo(response, info)
              IN  /\ messages' = LastOnly(newMessages)
                  /\ info' = newInfo
                  /\ node' = routeAfterChecker(newMessages, newInfo, loopStep, maxLoops)
    /\ UNCHANGED <<loopStep, maxLoops, modelSetsIds, modelOutputs, judgments,
                   completed>>

RoutingToolNode ==
    /\ node = "tools"
    /\ UNCHANGED <<topic, extractionSchema, runs, utility>>
    /\ LET tool_calls == Last(messages).tool_calls IN
       \E outcomes \in [1..Len(tool_calls) -> ToolOutcomes \cup {"notfound"}] :
           /\ \A k \in 1..Len(tool_calls) : outcomes[k] \in OutcomesOf(tool_calls[k])
           /\ messages' = LastOnly(messagesStateReducer(messages,
                                       ToolOutputs(tool_calls, outcomes)))
    /\ node' = "callAgentModel"
    /\ UNCHANGED <<info, loopStep, maxLoops, modelSetsIds, modelOutputs, judgments,
                   completed>>

RoutingNext == RoutingCallAgentModel \/ RoutingReflect \/ RoutingToolNode

\* the graph runs the node that is due: a node that is due is not postponed
\* for ever
RoutingSpec == Init /\ [][RoutingNext]_vars /\ WF_vars(RoutingNext)

----------------------------------------------------------------------------
(* Reading the conversation *)

IsAI(m) == m.type = "ai"

IsTool(m) == m.type = "tool"

\* the last message is the result turn of a validation that rejected
LastIsRejection ==
    /\ Len(messages) > 0
    /\ IsTool(Last(messages))
    /\ Last(messages).name = "Info"
    /\ Last(messages).status = "error"

\* the last message is the result turn of a validation that accepted
LastIsAcceptance ==
    /\ Len(messages) > 0
    /\ IsTool(Last(messages))
    /\ Last(messages).name = "Info"
    /\ Last(messages).status = "success"

\* every model response so far was exactly one call of the search tool
OnlySearched ==
    \A i \in 1..Len(modelOutputs) :
        /\ Len(modelOutputs[i]) = 1
        /\ modelOutputs[i][1].name = "search"

----------------------------------------------------------------------------
(* C1..C10 *)

\* C1: the iteration counter never exceeds maxLoops: callAgentModel, which adds
\* one to it, never runs when the counter has already reached maxLoops.
C1_LoopStepWithinMaxLoops == loopStep <= maxLoops

\* C2: every run eventually reaches __end__, whatever the model answers.
C2_RunReachesEnd == <>(node = "__end__")

\* C3: Scenario A: when every model response is one search call, the run ends
\* after exactly maxLoops responses, with no record and loopStep = maxLoops.
C3_ScenarioABudgetExhausted ==
    (/\ OnlySearched
     /\ Len(modelOutputs) = maxLoops
     /\ node # "tools")
    => (/\ node = "__end__"
        /\ info = Undefined
        /\ loopStep = maxLoops)

\* C4: after a rejection info is empty, and a run never ends with a record whose
\* last validation rejected it.
C4_RejectionClearsInfo ==
    /\ LastIsRejection => info = Undefined
    /\ (node = "__end__" /\ info # Undefined) => LastIsAcceptance

\* the step is a run of callAgentModel / of reflect / of the tool node
IsDecision == modelOutputs' # modelOutputs

IsValidation == judgments' # judgments

IsToolRun == node = "tools" /\ node' # "tools"

\* the raw tool_calls of the model response of a step that is a decision
Answer == Last(modelOutputs')

\* the last judgment accepted a candidate that was there
Accepted ==
    /\ Len(judgments) > 0
    /\ Last(judgments).is_satisfactory
    /\ info # Undefined

\* C5: when reflect gets a satisfactory judgment for a candidate, the conversation
\* ends with the submitting turn and exactly one success result for its Info call
\* (the call's id, the reasons as content), info is the submitted record, and the
\* run is at __end__, where no node runs any more, whatever loopStep is; a run of
\* one response, an accepted submission, ends with loopStep = 1.
C5_AcceptanceEndsRun ==
    Accepted =>
        LET n == Len(messages) IN
        /\ n >= 2
        /\ IsAI(messages[n - 1])
        /\ Len(messages[n - 1].tool_calls) >= 1
        /\ IsInfo(messages[n - 1].tool_calls[1])
        /\ messages[n] = ToolMessage(IdOrEmpty(messages[n - 1].tool_calls[1].id),
                                     "Info", "success", "reason")
        /\ Cardinality({p \in 1..n : /\ IsTool(messages[p])
                                     /\ messages[p].status = "success"}) = 1
        /\ info = messages[n - 1].tool_calls[1].args
        /\ info = FirstInfoArgs(Last(modelOutputs))
        /\ node = "__end__"
        /\ ~ENABLED Next
        /\ (Len(modelOutputs) = 1 => loopStep = 1)

\* C5, witness: Scenario B has run: one response, a submission, accepted.
C5_Witness ==
    /\ Accepted
    /\ Len(modelOutputs) = 1
    /\ Len(modelOutputs[1]) = 1
    /\ node = "__end__"
    /\ info \in Records

\* the calls of the conversation, each as <<position of its turn, position in it>>
CallsIn(msgs) ==
    UNION { { <<p, k>> : k \in 1..Len(msgs[p].tool_calls) } :
              p \in { q \in 1..Len(msgs) : IsAI(msgs[q]) } }

CallAt(msgs, c) == msgs[c[1]].tool_calls[c[2]]

\* a result turn carries the id of the call, the empty string when it has none
Answers(m, call) == IsTool(m) /\ m.tool_call_id = IdOrEmpty(call.id)

\* the result turns that answer call c: later tool messages that carry its id
ResultsOf(msgs, c) ==
    { p \in (c[1] + 1)..Len(msgs) : Answers(msgs[p], CallAt(msgs, c)) }

\* C6: every result turn carries the id of exactly one earlier call, no call has
\* two results, and when callAgentModel is due every call has exactly one result.
C6_CallsAndResultsPaired ==
    /\ \A p \in 1..Len(messages) :
         IsTool(messages[p]) =>
           Cardinality({ c \in CallsIn(messages) :
                           /\ c[1] < p
                           /\ Answers(messages[p], CallAt(messages, c)) }) = 1
    /\ \A c \in CallsIn(messages) : Cardinality(ResultsOf(messages, c)) <= 1
    /\ node = "callAgentModel" =>
         \A c \in CallsIn(messages) : Cardinality(ResultsOf(messages, c)) = 1

\* the model response of the step carries two calls
TwoCalls == IsDecision /\ Len(Answer) = 2

\* the tool node has answered the calls of the turn before it, one result each,
\* in call order
ToolsAnswered(before, after) ==
    LET tool_calls == Last(before).tool_calls IN
    /\ Len(after) = Len(before) + Len(tool_calls)
    /\ SubSeq(after, 1, Len(before)) = before
    /\ \A k \in 1..Len(tool_calls) :
         /\ Answers(after[Len(before) + k], tool_calls[k])
         /\ after[Len(before) + k].name = tool_calls[k].name

Bundled ==
    /\ IsDecision
    /\ HasInfoCall(Answer)
    /\ \E k \in 1..Len(Answer) : ~IsInfo(Answer[k])

NoCalls == IsDecision /\ Len(Answer) = 0

WellFormed == { i \in 1..Len(modelOutputs) : Len(modelOutputs[i]) = 1 }

----------------------------------------------------------------------------
(* C11..C20 *)

\* the model responses so far that carried an Info call
Submissions == { i \in 1..Len(modelOutputs) : HasInfoCall(modelOutputs[i]) }

Max(S) == CHOOSE x \in S : \A y \in S : y <= x

\* the Info calls of the most recent model response that carried one
LatestInfoCalls == SelectSeq(modelOutputs[Max(Submissions)], IsInfo)

SubmittedAlone(i) == Len(modelOutputs[i]) = 1 /\ IsInfo(modelOutputs[i][1])

\* Scenario C as far as its first validation: one submission, rejected
ScenarioCRejected ==
    /\ maxLoops >= 2
    /\ Len(modelOutputs) = 1
    /\ SubmittedAlone(1)
    /\ Len(judgments) = 1
    /\ ~judgments[1].is_satisfactory

\* Scenario C as a whole: a submission, rejected, then another record, accepted
ScenarioC ==
    /\ maxLoops >= 2
    /\ Len(modelOutputs) = 2
    /\ SubmittedAlone(1)
    /\ SubmittedAlone(2)
    /\ modelOutputs[1][1].args # modelOutputs[2][1].args
    /\ Len(judgments) = 2
    /\ ~judgments[1].is_satisfactory
    /\ judgments[2].is_satisfactory

IsFailure(m) == IsTool(m) /\ m.status = "error"

IsSuccess(m) == IsTool(m) /\ m.status # "error"

\* the batch of the tool node: the calls of the last message
Batch == Last(messages).tool_calls

\* the result turn the step appends for the call at position k of the batch
ResultOf(k) == messages'[Len(messages) + k]

\* the call at position k of the batch did not get through: its tool threw, or
\* there is no such tool
Failed(k) == OutcomeOf(completed, k) \in {"throws", "notfound"}

\* some call of the batch has settled by throwing
SomeThrown == \E j \in 1..Len(completed) : completed[j].outcome = "throws"

\* the call at position k of the batch can settle with the outcome
CanSettle(k, outcome) ==
    ENABLED (/\ ToolCallSettles
             /\ completed' = Append(completed, [call |-> k, outcome |-> outcome]))

\* Scenario D: a batch of two calls, the first has thrown, the second returned
ScenarioD ==
    /\ node = "tools"
    /\ Len(Batch) = 2
    /\ Settled(completed) = {1, 2}
    /\ OutcomeOf(completed, 1) = "throws"
    /\ OutcomeOf(completed, 2) = "returns"

\* C13: in the tool node a call that throws does not keep its siblings from being
\* invoked and from settling either way; the node returns only when every call of
\* the batch has settled, and then it returns normally: the conversation gains
\* one result turn per call, each with its own call's id and name, a failure
\* exactly for the calls that did not get through, and callAgentModel runs next.
\* In Scenario D the conversation gains a failure for the first call and then a
\* success for the second.
C13_FaultIsolation ==
    /\ [](node = "tools" /\ SomeThrown =>
            \A k \in (1..Len(Batch)) \ Settled(completed) :
                \A outcome \in OutcomesOf(Batch[k]) : CanSettle(k, outcome))
    /\ [][IsToolRun =>
            /\ Settled(completed) = 1..Len(Batch)
            /\ Len(messages') = Len(messages) + Len(Batch)
            /\ SubSeq(messages', 1, Len(messages)) = messages
            /\ \A k \in 1..Len(Batch) :
                 /\ Answers(ResultOf(k), Batch[k])
                 /\ ResultOf(k).name = Batch[k].name
                 /\ IsFailure(ResultOf(k)) <=> Failed(k)
                 /\ IsSuccess(ResultOf(k)) <=> ~Failed(k)
            /\ node' = "callAgentModel"]_vars
    /\ [][IsToolRun /\ ScenarioD =>
            /\ Len(messages') = Len(messages) + 2
            /\ IsFailure(ResultOf(1))
            /\ ResultOf(1).tool_call_id = IdOrEmpty(Batch[1].id)
            /\ IsSuccess(ResultOf(2))
            /\ ResultOf(2).tool_call_id = IdOrEmpty(Batch[2].id)]_vars
    /\ [](node # "__error__")

\* C13, witness: Scenario D has run: the tool node has returned a failure for the
\* first call and a success for the second, each with its call's id.
C13_Witness ==
    /\ node = "callAgentModel"
    /\ Len(completed) = 2
    /\ OutcomeOf(completed, 1) = "throws"
    /\ OutcomeOf(completed, 2) = "returns"
    /\ Len(messages) >= 3
    /\ IsFailure(messages[Len(messages) - 1])
    /\ IsSuccess(messages[Len(messages)])
    /\ messages[Len(messages) - 1].tool_call_id = "call_1"
    /\ messages[Len(messages)].tool_call_id = "call_2"

\* the step is one call of the batch settling while the others are in flight
IsSettling == node = "tools" /\ completed' # completed

\* the calls of the batch settled in an order that is not the call order
SettledOutOfOrder ==
    \E i, j \in 1..Len(completed) : i < j /\ completed[i].call > completed[j].call

\* C14: the calls of a batch are in flight together and settle in any order, each
\* one whatever has settled before it; while they settle the conversation is left
\* alone; the results are appended in one step, when every call has settled, and
\* they are in the order of the calls, whatever the order the calls settled in.
C14_ResultsInCallOrder ==
    /\ [](node = "tools" =>
            \A k \in (1..Len(Batch)) \ Settled(completed) :
                \A outcome \in OutcomesOf(Batch[k]) : CanSettle(k, outcome))
    /\ [][IsSettling => (messages' = messages /\ node' = "tools")]_vars
    /\ [][messages' # messages /\ node = "tools" =>
            /\ Len(completed) = Len(Batch)
            /\ Settled(completed) = 1..Len(Batch)
            /\ completed' = completed
            /\ messages' = messages \o
                 [k \in 1..Len(Batch) |->
                    ToolMessage(IdOrEmpty(Batch[k].id), Batch[k].name,
                                ResultOf(k).status, ResultOf(k).content)]
            /\ \A k \in 1..Len(Batch) : IsFailure(ResultOf(k)) <=> Failed(k)]_vars

\* C14, witness: the second call of a batch settled before the first, and the
\* results are in the conversation in call order.
C14_Witness ==
    /\ node = "callAgentModel"
    /\ Len(completed) = 2
    /\ SettledOutOfOrder
    /\ completed[1].outcome # completed[2].outcome
    /\ Len(messages) >= 3
    /\ messages[Len(messages) - 1].tool_call_id = "call_1"
    /\ messages[Len(messages)].tool_call_id = "call_2"
    /\ IsFailure(messages[Len(messages)]) <=> completed[1].outcome = "throws"

\* the call names a tool the tool node does not have
IsMissing(call) == call.name \notin RegisteredTools

\* the call that settles in a step that is a settling, and how it settles
SettlingCall == Batch[Last(completed').call]

SettlingOutcome == Last(completed').outcome

\* C15: a call that names a tool the tool node does not have settles without any
\* tool being invoked, and the tool node appends for it a failure result turn that
\* carries the call's id and name and a tool-not-found message; callAgentModel
\* runs next.
C15_MissingToolFails ==
    /\ [][IsSettling =>
            /\ IsMissing(SettlingCall) => SettlingOutcome = "notfound"
            /\ ~IsMissing(SettlingCall) => SettlingOutcome \in ToolOutcomes]_vars
    /\ [][IsToolRun =>
            /\ \A k \in 1..Len(Batch) :
                 IsMissing(Batch[k]) =>
                   /\ OutcomeOf(completed, k) = "notfound"
                   /\ ResultOf(k) =
                        ToolMessage(IdOrEmpty(Batch[k].id), Batch[k].name, "error",
                                    "Error: Tool not found. Please fix your mistakes.")
            /\ node' = "callAgentModel"
            /\ UNCHANGED <<info, loopStep>>]_vars

\* C15, witness: the tool node has answered a call of a tool it does not have.
C15_Witness ==
    /\ node = "callAgentModel"
    /\ Len(messages) >= 2
    /\ IsFailure(Last(messages))
    /\ Last(messages).name = "translate"
    /\ Last(messages).content = "Error: Tool not found. Please fix your mistakes."
    /\ Last(completed).outcome = "notfound"

\* reflect is due and the conversation does not end with an assistant turn
EnteredWithoutAssistantTurn == node = "reflect" /\ ~IsAI(Last(messages))

\* C16: when reflect is entered on a conversation whose last turn is not an
\* assistant turn, it throws, and the throw ends the run: no judgment is asked
\* for, the conversation, info and loopStep are what they were, and no node runs
\* after it.
C16_ReflectPreconditionAborts ==
    /\ [][EnteredWithoutAssistantTurn =>
            /\ node' = "__error__"
            /\ UNCHANGED <<messages, info, loopStep, judgments>>]_vars
    /\ [](EnteredWithoutAssistantTurn => ENABLED Reflect)
    /\ [](node = "__error__" => ~ENABLED Next)

\* C16, witness: reflect has thrown on a conversation that ends with a result turn.
C16_Witness ==
    /\ node = "__error__"
    /\ IsTool(Last(messages))
    /\ judgments = <<>>

IsRejection == IsValidation /\ ~Last(judgments').is_satisfactory

\* the failure result turn reflect returns for a judgment it does not accept
RejectionTurn ==
    ToolMessage(IdOrEmpty(Last(messages).tool_calls[1].id), "Info", "error",
                "Unsatisfactory response: improvement_instructions")

\* C18, as claimed: when the judgment is not satisfactory, reflect appends one
\* failure result turn with the id of the Info call and the improvement notes,
\* and callAgentModel runs next.
C18_RejectionGoesToDecision ==
    [][IsRejection =>
         /\ messages' = Append(messages, RejectionTurn)
         /\ node' = "callAgentModel"]_vars

\* C18, amended: when the judgment is not satisfactory, reflect appends one
\* failure result turn with the id of the Info call and the improvement notes,
\* and leaves loopStep alone; callAgentModel runs next while loopStep is below
\* maxLoops, and otherwise the run is at __end__.
C18_RejectionGoesToDecisionWithinBudget ==
    [][IsRejection =>
         /\ IsInfo(Last(messages).tool_calls[1])
         /\ messages' = Append(messages, RejectionTurn)
         /\ loopStep' = loopStep
         /\ node' = IF loopStep < maxLoops THEN "callAgentModel" ELSE "__end__"]_vars

\* C18, witness: two submissions were rejected: the first rejection was followed
\* by callAgentModel, the second has ended the run.
C18_Witness ==
    /\ node = "__end__"
    /\ LastIsRejection
    /\ Len(judgments) = 2
    /\ ~judgments[1].is_satisfactory
    /\ ~judgments[2].is_satisfactory
    /\ loopStep = maxLoops

\* C19: the model responses of a run that call the Info tool are at most
\* maxInfoToolCalls, and once there are that many and the last of them has been
\* through reflect, the run is at __end__.
C19_InfoCallsWithinLimit ==
    /\ Cardinality(Submissions) <= maxInfoToolCalls
    /\ (/\ Cardinality(Submissions) = maxInfoToolCalls
        /\ Len(judgments) = maxInfoToolCalls) => node = "__end__"

\* the records the model has submitted so far: the arguments of its Info calls
SubmittedRecords ==
    UNION { { modelOutputs[i][k].args :
                k \in { j \in 1..Len(modelOutputs[i]) : IsInfo(modelOutputs[i][j]) } } :
            i \in 1..Len(modelOutputs) }

\* C20: a run that has come to __end__ holds a record in info, and the record is
\* one the model submitted through an Info call of this run, whether its last
\* validation accepted it or not.
C20_EndedRunHoldsRecord ==
    node = "__end__" =>
        /\ info # Undefined
        /\ info \in Records
        /\ info \in SubmittedRecords
        /\ LastIsAcceptance \/ LastIsRejection

\* C20, witness: a run that searched first and then submitted has come to __end__.
C20_Witness ==
    /\ node = "__end__"
    /\ Len(modelOutputs) >= 2
    /\ ~HasInfoCall(modelOutputs[1])
    /\ IsTool(messages[2])
    /\ info \in SubmittedRecords

----------------------------------------------------------------------------
(* C21..C30 *)

\* the conversation ends with the result turns of a batch of the tool node, and
\* one of the calls of the batch did not get through
LastBatchHasFailure ==
    /\ Len(completed) > 0
    /\ IsTool(Last(messages))
    /\ \E j \in 1..Len(completed) : completed[j].outcome \in {"throws", "notfound"}

\* the conversation ends with the request to call a tool
LastIsReminder == Len(messages) > 0 /\ Last(messages).type = "human"

\* the conversation ends with an assistant turn of several calls
LastIsSeveralCalls ==
    /\ Len(messages) > 0
    /\ IsAI(Last(messages))
    /\ Len(Last(messages).tool_calls) > 1

\* C21: no run of the graph throws: a tool that threw or was not there has its
\* failure in the conversation and callAgentModel is due; after a response
\* without calls callAgentModel is due; a turn of several calls is due for the
\* tool node or for reflect; after a rejection callAgentModel is due or the run
\* is at __end__.
C21_FailuresAreAbsorbed ==
    /\ node # "__error__"
    /\ node \in {"callAgentModel", "tools", "reflect", "__end__"}
    /\ LastBatchHasFailure =>
         /\ node = "callAgentModel"
         /\ \E p \in 1..Len(messages) : IsFailure(messages[p]) /\ messages[p].name # "Info"
    /\ LastIsReminder => node = "callAgentModel"
    /\ LastIsSeveralCalls => node \in {"tools", "reflect"}
    /\ LastIsRejection => node \in {"callAgentModel", "__end__"}

\* C21, witness: a run whose model answered without a call, whose tool threw and
\* whose submission was rejected has ended at __end__.
C21_Witness ==
    /\ node = "__end__"
    /\ LastIsRejection
    /\ \E i \in 1..Len(modelOutputs) : modelOutputs[i] = << >>
    /\ \E p \in 1..Len(messages) : IsFailure(messages[p]) /\ messages[p].name = "search"

\* the sequence before is the beginning of the sequence after
IsPrefix(before, after) ==
    /\ Len(before) <= Len(after)
    /\ SubSeq(after, 1, Len(before)) = before

\* C22: every step leaves the conversation it found as the beginning of the
\* conversation it leaves: callAgentModel adds the response, and the request to
\* call a tool when there is one, reflect adds one result turn, the tool node
\* adds one result turn for each call of its batch, and nothing is added while
\* the calls of a batch settle.
C22_ConversationIsAppendOnly ==
    [][/\ IsPrefix(messages, messages')
       /\ IsDecision =>
            Len(messages') = Len(messages) + (IF Len(Answer) = 0 THEN 2 ELSE 1)
       /\ IsValidation => Len(messages') = Len(messages) + 1
       /\ IsToolRun => Len(messages') = Len(messages) + Len(Batch)
       /\ IsSettling => messages' = messages]_vars

\* C22, witness: a run of three model responses has ended; its conversation holds
\* turns of callAgentModel, of the tool node and of reflect.
C22_Witness ==
    /\ node = "__end__"
    /\ Len(modelOutputs) = 3
    /\ Len(messages) >= 6
    /\ \E p \in 1..Len(messages) : IsTool(messages[p]) /\ messages[p].name = "search"
    /\ \E p \in 1..Len(messages) : messages[p].type = "human"

\* the step is the run of a node of the graph together with the edge after it
IsNodeRun == IsDecision \/ IsValidation \/ IsToolRun

\* the edges the claim allows between the nodes of this graph, which has no
\* node for corrections
ClaimedEdges ==
    { <<"callAgentModel", "tools">>, <<"callAgentModel", "reflect">>,
      <<"tools", "callAgentModel">>,
      <<"reflect", "callAgentModel">>, <<"reflect", "__end__">> }

CorrectionDue ==
    /\ node = "createCorrectionResponse"
    /\ IsAI(Last(messages))
    /\ Len(Batch) > 1

\* C24: createCorrectionResponse, on a malformed assistant turn with n calls, appends
\* n failure result turns, one for each call in call order, with the call's id
\* and name and the text that one tool and only one must be called; it leaves
\* info and loopStep alone, invokes no tool, and callAgentModel runs next.
C24_CorrectionAnswersEachCall ==
    [][CorrectionDue =>
         /\ Len(messages') = Len(messages) + Len(Batch)
         /\ IsPrefix(messages, messages')
         /\ \A k \in 1..Len(Batch) :
              /\ IsFailure(ResultOf(k))
              /\ ResultOf(k).tool_call_id = IdOrEmpty(Batch[k].id)
              /\ ResultOf(k).name = Batch[k].name
              /\ ResultOf(k).content = "You must call one, and only one, tool!"
         /\ UNCHANGED <<info, loopStep, completed>>
         /\ node' = "callAgentModel"]_vars

\* C25: the tool node, while its calls settle and when it returns, changes neither
\* loopStep nor info nor topic nor extractionSchema; reflect does not change
\* loopStep; no step changes topic, extractionSchema or the configuration; and
\* what a step changes is what its node returns: callAgentModel the conversation,
\* info and loopStep, reflect the conversation, the tool node the conversation.
C25_StepsChangeOnlyTheirDelta ==
    [][/\ (IsToolRun \/ IsSettling) =>
            UNCHANGED <<loopStep, info, topic, extractionSchema>>
       /\ IsToolRun => messages' # messages
       /\ IsValidation => (loopStep' = loopStep /\ info' = info)
       /\ IsDecision => loopStep' = loopStep + 1
       /\ UNCHANGED <<topic, extractionSchema, maxLoops>>]_vars

\* C25, witness: the tool node has returned after callAgentModel had counted two
\* steps and a submission had been rejected; info and loopStep are what
\* callAgentModel left.
C25_Witness ==
    /\ node = "callAgentModel"
    /\ Len(completed) > 0
    /\ IsTool(Last(messages))
    /\ Len(judgments) = 1
    /\ loopStep = 2
    /\ info = FirstInfoArgs(Last(modelOutputs))
    /\ topic \in Topics

----------------------------------------------------------------------------
(* Runs side by side.                                                       *)
(*                                                                          *)
(* graph.invoke is called once per run; every call has a state of its own,  *)
(* built from its input, and the nodes are functions of the state they are  *)
(* handed.  Below, two runs are under way at once, and the super-steps of   *)
(* the one and of the other come in any order.  What the models and the     *)
(* tools of a run answer is laid down when the run starts, so that the same *)
(* answers can be given to a run again.                                     *)

\* the number of model responses that are laid down for a run
RunSteps == 2

RunIds == {1, 2}

\* the topics of the runs
RunTopics == {"LangChain", "LangGraph"}

\* the responses laid down for a run: two calls of a registered tool at once, or
\* the submission of a record
RunShapes ==
    { s \in ResponseShapes :
        \/ Len(s) = 2 /\ s[1].name = "search" /\ s[2].name = "search"
        \/ Len(s) = 1 /\ s[1].name = "Info" /\ s[1].args = "r1" }

\* the positions in a batch at which the invocation of the tool throws
ThrowingCalls == {{}, {1}}

\* what a run is answered: the responses of the chat model in turn, the judgment
\* of the judgment model, and how the tools end
RunAnswers == [decisions : [1..RunSteps -> RunShapes],
               is_satisfactory : BOOLEAN,
               throwing : ThrowingCalls]

\* the state of a run that graph.invoke starts, with what it will be answered
StartOf(runTopic, answers) ==
    [topic |-> runTopic, answers |-> answers, node |-> "callAgentModel",
     messages |-> << >>, info |-> Undefined, loopStep |-> 0,
     modelOutputs |-> << >>, completed |-> << >>]

\* a variant of AgentStep: loopStep is kept in one counter of the module, on
\* which every run counts
AgentStep_SharedLoopStep(run) ==
    LET tool_calls == ModelResponse(run.answers.decisions[Len(run.modelOutputs) + 1],
                                    run.modelOutputs)
        newMessages == messagesStateReducer(run.messages, ResponseMessages(tool_calls))
    IN  [run EXCEPT !.modelOutputs = Append(@, tool_calls),
                    !.messages = newMessages,
                    !.info = FirstInfoArgs(tool_calls),
                    !.loopStep = loopStepReducer(Max({ runs[r].loopStep : r \in RunIds }),
                                                 LoopStepUpdate(tool_calls)),
                    !.node = routeAfterAgent(newMessages),
                    !.completed = << >>]

\* callAgentModel and routeAfterAgent on the state of a run
AgentStep(run) ==
    LET tool_calls == ModelResponse(run.answers.decisions[Len(run.modelOutputs) + 1],
                                    run.modelOutputs)
        newMessages == messagesStateReducer(run.messages, ResponseMessages(tool_calls))
    IN  [run EXCEPT !.modelOutputs = Append(@, tool_calls),
                    !.messages = newMessages,
                    !.info = FirstInfoArgs(tool_calls),
                    !.loopStep = loopStepReducer(@, LoopStepUpdate(tool_calls)),
                    !.node = routeAfterAgent(newMessages),
                    !.completed = << >>]

\* reflect and routeAfterChecker on the state of a run
ReflectStep(run) ==
    IF Last(run.messages).type # "ai"
    THEN [run EXCEPT !.node = "__error__"]
    ELSE LET response == [is_satisfactory |-> run.answers.is_satisfactory]
             newMessages ==
                 messagesStateReducer(run.messages,
                     ReflectMessages(response, run.info, Last(run.messages)))
             newInfo == ReflectInfo(response, run.info)
         IN  [run EXCEPT !.messages = newMessages,
                         !.info = newInfo,
                         !.node = routeAfterChecker(newMessages, newInfo,
                                                    run.loopStep, maxLoops)]

\* how the call at position k of the run's batch ends
AnsweredOutcome(run, k) ==
    LET call == Last(run.messages).tool_calls[k] IN
    IF call.name \notin RegisteredTools THEN "notfound"
    ELSE IF k \in run.answers.throwing THEN "throws"
    ELSE "returns"

\* the call at position k of the run's batch settles
SettleStep(run, k) ==
    [run EXCEPT !.completed = Append(@, [call |-> k, outcome |-> AnsweredOutcome(run, k)])]

\* a variant of ToolStep: the outputs come in the order the calls settled
ToolStep_SettlingOrder(run) ==
    LET tool_calls == Last(run.messages).tool_calls
        outcomes == [k \in 1..Len(tool_calls) |-> OutcomeOf(run.completed, k)]
        outputs == [i \in 1..Len(tool_calls) |->
                       ToolOutput(tool_calls[run.completed[i].call],
                                  outcomes[run.completed[i].call])]
    IN  [run EXCEPT !.messages = messagesStateReducer(@, outputs),
                    !.node = "callAgentModel"]

\* the tool node returns and the edge tools -> callAgentModel, on the state of a
\* run whose calls have all settled
ToolStep(run) ==
    LET tool_calls == Last(run.messages).tool_calls
        outcomes == [k \in 1..Len(tool_calls) |-> OutcomeOf(run.completed, k)]
    IN  [run EXCEPT !.messages = messagesStateReducer(@, ToolOutputs(tool_calls, outcomes)),
                    !.node = "callAgentModel"]

RunsInit ==
    /\ node = "callAgentModel"
    /\ topic \in Topics
    /\ extractionSchema \in Schemas
    /\ messages = << >>
    /\ info = Undefined
    /\ loopStep = 0
    /\ maxLoops = MaxLoopsBound
    /\ modelSetsIds = TRUE
    /\ modelOutputs = << >>
    /\ judgments = << >>
    /\ completed = << >>
    /\ utility = NoUtility
    /\ \E otherTopic \in RunTopics : \E answers \in [RunIds -> RunAnswers] :
         runs = [r \in RunIds |->
                    StartOf(IF r = 1 THEN topic ELSE otherTopic, answers[r])]

RunCallAgentModel ==
    /\ \E r \in RunIds :
         /\ runs[r].node = "callAgentModel"
         /\ Len(runs[r].modelOutputs) < RunSteps
         /\ runs' = [runs EXCEPT ![r] = AgentStep(runs[r])]
    /\ UNCHANGED <<node, messages, info, loopStep, maxLoops, modelSetsIds,
                   modelOutputs, judgments, completed, topic, extractionSchema,
                   utility>>

RunReflect ==
    /\ \E r \in RunIds :
         /\ runs[r].node = "reflect"
         /\ runs' = [runs EXCEPT ![r] = ReflectStep(runs[r])]
    /\ UNCHANGED <<node, messages, info, loopStep, maxLoops, modelSetsIds,
                   modelOutputs, judgments, completed, topic, extractionSchema,
                   utility>>

RunToolCallSettles ==
    /\ \E r \in RunIds :
         /\ runs[r].node = "tools"
         /\ \E k \in (1..Len(Last(runs[r].messages).tool_calls)) \ Settled(runs[r].completed) :
              runs' = [runs EXCEPT ![r] = SettleStep(runs[r], k)]
    /\ UNCHANGED <<node, messages, info, loopStep, maxLoops, modelSetsIds,
                   modelOutputs, judgments, completed, topic, extractionSchema,
                   utility>>

RunToolNode ==
    /\ \E r \in RunIds :
         /\ runs[r].node = "tools"
         /\ Settled(runs[r].completed) = 1..Len(Last(runs[r].messages).tool_calls)
         /\ runs' = [runs EXCEPT ![r] = ToolStep(runs[r])]
    /\ UNCHANGED <<node, messages, info, loopStep, maxLoops, modelSetsIds,
                   modelOutputs, judgments, completed, topic, extractionSchema,
                   utility>>

RunsNext == RunCallAgentModel \/ RunReflect \/ RunToolCallSettles \/ RunToolNode

RunsSpec == RunsInit /\ [][RunsNext]_vars

\* a run alone ------------------------------------------------------------

\* whether a node of the run is due
CanStep(run) ==
    \/ run.node \in {"reflect", "tools"}
    \/ run.node = "callAgentModel" /\ Len(run.modelOutputs) < RunSteps

\* the calls of the run's batch from position k on settle, in call order
RECURSIVE SettleInCallOrder(_, _)
SettleInCallOrder(run, k) ==
    IF k > Len(Last(run.messages).tool_calls) THEN run
    ELSE SettleInCallOrder(SettleStep(run, k), k + 1)

\* the node that is due runs; the tool node's calls settle in call order
StepAlone(run) ==
    IF run.node = "callAgentModel" THEN AgentStep(run)
    ELSE IF run.node = "reflect" THEN ReflectStep(run)
    ELSE ToolStep(SettleInCallOrder(run, 1))

\* what the caller of a run sees of its state
ResultOfRun(run) ==
    [node |-> run.node, messages |-> run.messages, info |-> run.info,
     loopStep |-> run.loopStep]

\* the run alone, up to the state in which no node is due
RECURSIVE RunAlone(_)
RunAlone(run) == IF CanStep(run) THEN RunAlone(StepAlone(run)) ELSE run

\* the states the run alone goes through
RECURSIVE StatesAlone(_)
StatesAlone(run) ==
    {ResultOfRun(run)} \cup (IF CanStep(run) THEN StatesAlone(StepAlone(run)) ELSE {})

\* the run as graph.invoke starts it, with the topic and the answers of run r
Started(r) == StartOf(runs[r].topic, runs[r].answers)

\* no node of run r is due: the run is over, or it waits for a model response
\* that is not laid down
IsOver(r) == ~CanStep(runs[r])

\* C26: of two runs whose steps come in any order, each is at every moment in a
\* state that the run alone, given the same answers of the models and the tools,
\* goes through, and when it is over its node, conversation, info and loopStep
\* are those the run alone ends with: no step of a run reads or writes the
\* state of the other.
C26_RunsDoNotInterfere ==
    \A r \in RunIds :
        /\ ResultOfRun(runs[r]) \in StatesAlone(Started(r))
        /\ IsOver(r) => ResultOfRun(runs[r]) = ResultOfRun(RunAlone(Started(r)))

\* C26, witness: two runs with different topics and different answers are both
\* over; the one has run its tools at every response, the calls of the last
\* batch settling out of call order, the other has submitted a record that was
\* accepted.
C26_Witness ==
    /\ runs # NoRuns
    /\ runs[1].topic # runs[2].topic
    /\ runs[1].answers # runs[2].answers
    /\ IsOver(1) /\ IsOver(2)
    /\ Len(runs[1].completed) = 2
    /\ runs[1].completed[1].call = 2
    /\ runs[1].loopStep = RunSteps
    /\ runs[2].node = "__end__"
    /\ runs[2].loopStep = 1
    /\ runs[2].info = "r1"

\* C27: two runs with the same topic, schema and configuration that are given the
\* same model responses, judgments and tool outcomes end with the same node, the
\* same conversation, the same info and the same loopStep, in whatever order
\* the calls of their batches settled.
C27_RunIsDeterministic ==
    (/\ runs[1].topic = runs[2].topic
     /\ runs[1].answers = runs[2].answers
     /\ IsOver(1) /\ IsOver(2))
    => ResultOfRun(runs[1]) = ResultOfRun(runs[2])

\* C27, witness: two runs with the same topic and the same answers are over; in
\* both the tool node ran last, on a batch of two calls of which the first threw,
\* and the calls settled in call order in the one and out of call order in the
\* other.
C27_Witness ==
    /\ runs # NoRuns
    /\ runs[1].topic = runs[2].topic
    /\ runs[1].answers = runs[2].answers
    /\ IsOver(1) /\ IsOver(2)
    /\ Len(runs[1].completed) = 2 /\ Len(runs[2].completed) = 2
    /\ runs[1].completed[1].call = 1
    /\ runs[2].completed[1].call = 2
    /\ IsFailure(runs[1].messages[Len(runs[1].messages) - 1])
    /\ IsSuccess(Last(runs[1].messages))

\* C28, as claimed: every judgment reflect acts on when it is entered on a
\* submission, accepting or rejecting, carries at least MinReasons reasons, and
\* no record is accepted on a judgment with fewer.
C28_JudgmentsCarryThreeReasons ==
    [][(IsValidation /\ routeAfterAgent(messages) = "reflect") =>
          /\ Len(Last(judgments').reason) >= MinReasons
          /\ LastIsAcceptance' => Len(Last(judgments').reason) >= MinReasons]_vars

\* the assistant turns of the conversation, in order
AssistantTurns == SelectSeq(messages, IsAI)

\* C29: every assistant turn of the conversation carries no Info call or Info
\* calls only: it is the model's response, without its other calls when the
\* response carried an Info call; and the tool node never runs on a turn that
\* carries an Info call.
C29_SubmissionTurnsAreInfoOnly ==
    /\ Len(AssistantTurns) = Len(modelOutputs)
    /\ \A j \in 1..Len(AssistantTurns) :
         LET kept == AssistantTurns[j].tool_calls IN
         /\ \/ \A k \in 1..Len(kept) : kept[k].name # "Info"
            \/ \A k \in 1..Len(kept) : kept[k].name = "Info"
         /\ kept = IF \E k \in 1..Len(modelOutputs[j]) : modelOutputs[j][k].name = "Info"
                   THEN SelectSeq(modelOutputs[j], IsInfo)
                   ELSE modelOutputs[j]
    /\ node = "tools" => \A k \in 1..Len(Batch) : Batch[k].name # "Info"

\* C29, witness: the model answered with a search call and an Info call at once;
\* the assistant turn carries the Info call alone, reflect has judged the
\* submission, and no tool has run.
C29_Witness ==
    /\ Len(modelOutputs) = 1
    /\ Len(modelOutputs[1]) = 2
    /\ modelOutputs[1][1].name = "search"
    /\ modelOutputs[1][2].name = "Info"
    /\ Len(messages[1].tool_calls) = 1
    /\ messages[1].tool_calls[1].name = "Info"
    /\ Len(judgments) = 1
    /\ \A i \in 1..Len(messages) : IsTool(messages[i]) => messages[i].name = "Info"

\* C30: when reflect is due, the last message is an assistant turn whose first
\* call is an Info call, and info is the arguments of that call; and every
\* result turn of reflect in the conversation follows such a turn and carries
\* the id of its first call (the empty string if the call has none).
C30_ReflectJudgesFirstCall ==
    /\ node = "reflect" =>
         /\ IsAI(Last(messages))
         /\ Len(Last(messages).tool_calls) > 0
         /\ Last(messages).tool_calls[1].name = "Info"
         /\ info = Last(messages).tool_calls[1].args
    /\ \A i \in 1..Len(messages) :
         (IsTool(messages[i]) /\ messages[i].name = "Info") =>
            /\ i > 1
            /\ IsAI(messages[i - 1])
            /\ Len(messages[i - 1].tool_calls) > 0
            /\ messages[i - 1].tool_calls[1].name = "Info"
            /\ messages[i].tool_call_id = IdOrEmpty(messages[i - 1].tool_calls[1].id)

\* C30, witness: the model, which gives its calls ids, answered with two Info
\* calls with different records; reflect has judged, its result turn carries
\* the id of the first Info call, and info is the record of that call.
C30_Witness ==
    /\ modelSetsIds
    /\ Len(modelOutputs) = 1
    /\ Len(modelOutputs[1]) = 2
    /\ modelOutputs[1][1].name = "Info"
    /\ modelOutputs[1][2].name = "Info"
    /\ modelOutputs[1][1].args # modelOutputs[1][2].args
    /\ Len(judgments) = 1
    /\ Len(messages) = 2
    /\ messages[2].tool_call_id = modelOutputs[1][1].id
    /\ info = modelOutputs[1][1].args

\* routeAfterChecker looks at the last message: loopStep is below maxLoops and
\* info is set in the state reflect's update leaves
CheckerReadsLastMessage == loopStep' < maxLoops /\ info' # Undefined

\* C31: whenever routeAfterChecker is evaluated, after reflect, with loopStep
\* below maxLoops and info set, the last message of the conversation is a tool
\* message, and the run is not aborted: callAgentModel runs next or the run ends.
C31_CheckerFindsToolMessage ==
    [][(IsValidation /\ CheckerReadsLastMessage) =>
          /\ IsTool(Last(messages'))
          /\ node' \in {"callAgentModel", "__end__"}]_vars

\* C31, witness: reflect accepted a record while loopStep was below maxLoops;
\* routeAfterChecker read the tool message of reflect and ended the run.
C31_Witness ==
    /\ node = "__end__"
    /\ loopStep < maxLoops
    /\ info # Undefined
    /\ LastIsAcceptance
    /\ Len(judgments) = 1

\* C32: reflect is only entered when the last message of the conversation is an
\* assistant message whose first tool call is an Info call, and no run is
\* aborted by the error reflect throws on any other last message.
C32_ReflectEnteredOnSubmission ==
    /\ node = "reflect" =>
         /\ Len(messages) > 0
         /\ Last(messages).type = "ai"
         /\ Last(messages).tool_calls # << >>
         /\ Last(messages).tool_calls[1].name = "Info"
    /\ node # "__error__"

\* C32, witness: reflect is entered a second time, on the submission the model
\* made after the first one was rejected.
C32_Witness ==
    /\ node = "reflect"
    /\ Len(judgments) = 1
    /\ Len(modelOutputs) = 2
    /\ IsAI(Last(messages))
    /\ Last(messages).tool_calls[1].name = "Info"
    /\ messages[2].status = "error"

\* C33: reflect accepts exactly when the judgment is satisfactory and info is
\* set; on a satisfactory judgment without info it does what it does on a
\* rejection: its result turn has status "error", info stays unset, and
\* callAgentModel runs next while loopStep is below maxLoops (the run ends
\* otherwise).
C33_SatisfactoryWithoutRecordIsRejected ==
    [][IsValidation =>
          /\ LastIsAcceptance' <=> (Last(judgments').is_satisfactory /\ info # Undefined)
          /\ (Last(judgments').is_satisfactory /\ info = Undefined) =>
                /\ LastIsRejection'
                /\ info' = Undefined
                /\ node' = IF loopStep < maxLoops THEN "callAgentModel" ELSE "__end__"]_vars

\* C33, witness: reflect was entered without a record on a submission, the
\* judgment was satisfactory, the result turn is a rejection and callAgentModel
\* runs next.
C33_Witness ==
    /\ judgments = << [is_satisfactory |-> TRUE] >>
    /\ info = Undefined
    /\ LastIsRejection
    /\ IsAI(messages[1])
    /\ node = "callAgentModel"
    /\ loopStep < maxLoops

----------------------------------------------------------------------------
(* Functions looked at on their own.                                        *)
(*                                                                          *)
(* What the tool node hands to a tool, and what the functions of utils.ts   *)
(* and configuration.ts return, is a matter of their arguments alone.  Here *)
(* one such call is drawn with its arguments, and the one step is that it   *)
(* returns.  JavaScript objects are functions from their keys to their      *)
(* values, strings are sequences of characters.                             *)

\* { ...base, ...over }: the keys of both, a key of both with the value of over
Spread(base, over) ==
    [k \in DOMAIN base \cup DOMAIN over |->
        IF k \in DOMAIN over THEN over[k] ELSE base[k]]

\* the objects with some of the keys and with values out of the set
Objects(keys, values) == UNION { [ks -> values] : ks \in SUBSET keys }

\* the call has returned
Returned == "result" \in DOMAIN utility

\* the call of fn with the arguments, before it returns
CallOf(fn, args) == [fn |-> fn, args |-> args]

\* the call returns the result
Returns(result) ==
    utility' = [fn |-> utility.fn, args |-> utility.args, result |-> result]

\* the tool node ----------------------------------------------------------

\* the keys and the values of the arguments a model gives a call
ArgKeys == {"__state", "url", "query"}

ArgValues == {"model-supplied", "https://example.com"}

\* the state of the run the tool node is called with
RunStates == {"state"}

\* the calls of registered tools, with arguments as the model may give them
ToolCalls ==
    [name : RegisteredTools, args : Objects(ArgKeys, ArgValues), id : {"call_1"}]

\* a variant of NewCallArgs: __state is written last, { ...call.args, __state: state }
NewCallArgs_StateLast(state, call) == Spread(call.args, [__state |-> state])

\* newCall.args, with which the tool is invoked: { __state: state, ...call.args }
NewCallArgs(state, call) == Spread([__state |-> state], call.args)

\* tool.invoke({ ...newCall, type: "tool_call" }, config): what the tool is
\* invoked with
InvokeTool ==
    /\ ~Returned
    /\ utility.fn = "tool.invoke"
    /\ Returns([name |-> utility.args.call.name,
                id |-> utility.args.call.id,
                type |-> "tool_call",
                args |-> NewCallArgs(utility.args.state, utility.args.call)])
    /\ UNCHANGED <<node, messages, info, loopStep, maxLoops, modelSetsIds,
                   modelOutputs, judgments, completed, topic, extractionSchema,
                   runs>>

\* ensureConfiguration ----------------------------------------------------

\* the values of JavaScript a configuration may hold
JsUndefined == [type |-> "undefined"]

JsNull == [type |-> "null"]

JsNumber(n) == [type |-> "number", value |-> n]

JsString(s) == [type |-> "string", value |-> s]

\* the defaults of ensureConfiguration
DefaultModel == JsString("anthropic/claude-3-5-sonnet-20240620")

DefaultPrompt == JsString("MAIN_PROMPT")

DefaultMaxSearchResults == 5

DefaultMaxInfoToolCalls == 3

DefaultMaxLoops == 6

\* what a caller may supply for a key: nothing, null, a falsy value, another
StringInputs == {JsUndefined, JsNull, JsString(""), JsString("supplied")}

NumberInputs == {JsUndefined, JsNull, JsNumber(0), JsNumber(10)}

\* the keys of the configuration
ConfigKeys == {"model", "prompt", "maxSearchResults", "maxInfoToolCalls", "maxLoops"}

\* config.configurable, when it is an object
Configurables ==
    [model : StringInputs, prompt : StringInputs, maxSearchResults : NumberInputs,
     maxInfoToolCalls : NumberInputs, maxLoops : NumberInputs]

\* the config ensureConfiguration may be given: none, or one whose configurable
\* is missing, null or an object
Configs ==
    {JsUndefined}
    \cup { [configurable |-> c] : c \in {JsUndefined, JsNull} \cup Configurables }

\* a ?? b
NullishCoalesce(a, b) == IF a = JsUndefined \/ a = JsNull THEN b ELSE a

\* a || b
LogicalOr(a, b) ==
    IF a \in {JsUndefined, JsNull, JsNumber(0), JsString("")} THEN b ELSE a

\* config?.configurable ?? {}, of which a key that is not there reads undefined
ConfigurableOf(config) ==
    LET configurable ==
            IF config = JsUndefined THEN JsUndefined ELSE config.configurable
    IN  IF configurable = JsUndefined \/ configurable = JsNull
        THEN [k \in ConfigKeys |-> JsUndefined]
        ELSE configurable

\* a variant of ensureConfiguration: the defaults are put in with ||
ensureConfiguration_DefaultsForFalsy(config) ==
    LET configurable == ConfigurableOf(config) IN
    [model |-> LogicalOr(configurable.model, DefaultModel),
     prompt |-> LogicalOr(configurable.prompt, DefaultPrompt),
     maxSearchResults |->
         LogicalOr(configurable.maxSearchResults, JsNumber(DefaultMaxSearchResults)),
     maxInfoToolCalls |->
         LogicalOr(configurable.maxInfoToolCalls, JsNumber(DefaultMaxInfoToolCalls)),
     maxLoops |-> LogicalOr(configurable.maxLoops, JsNumber(DefaultMaxLoops))]

ensureConfiguration(config) ==
    LET configurable == ConfigurableOf(config) IN
    [model |-> NullishCoalesce(configurable.model, DefaultModel),
     prompt |-> NullishCoalesce(configurable.prompt, DefaultPrompt),
     maxSearchResults |->
         NullishCoalesce(configurable.maxSearchResults, JsNumber(DefaultMaxSearchResults)),
     maxInfoToolCalls |->
         NullishCoalesce(configurable.maxInfoToolCalls, JsNumber(DefaultMaxInfoToolCalls)),
     maxLoops |-> NullishCoalesce(configurable.maxLoops, JsNumber(DefaultMaxLoops))]

EnsureConfiguration ==
    /\ ~Returned
    /\ utility.fn = "ensureConfiguration"
    /\ Returns(ensureConfiguration(utility.args))
    /\ UNCHANGED <<node, messages, info, loopStep, maxLoops, modelSetsIds,
                   modelOutputs, judgments, completed, topic, extractionSchema,
                   runs>>

\* loadChatModel ----------------------------------------------------------

\* the names of models are at most MaxNameLen characters long
MaxNameLen == 5

NameChars == {"a", "/"}

\* the strings of at most n characters
Strings(chars, n) == UNION { [1..k -> chars] : k \in 0..n }

\* s.indexOf(c): the position, counted from 0, of the first c in s, or -1
indexOf(s, c) ==
    IF \E i \in 1..Len(s) : s[i] = c
    THEN (CHOOSE i \in 1..Len(s) : s[i] = c /\ \A j \in 1..(i - 1) : s[j] # c) - 1
    ELSE -1

\* s.lastIndexOf(c)
lastIndexOf(s, c) ==
    IF \E i \in 1..Len(s) : s[i] = c
    THEN (CHOOSE i \in 1..Len(s) : s[i] = c /\ \A j \in (i + 1)..Len(s) : s[j] # c) - 1
    ELSE -1

\* s.slice(start, end), for 0 <= start and end <= s.length
slice(s, start, end) == SubSeq(s, start + 1, end)

\* a variant of loadChatModel: the name is split at its last "/"
loadChatModel_SplitsAtLastSlash(fullySpecifiedName) ==
    LET index == lastIndexOf(fullySpecifiedName, "/") IN
    IF index = -1
    THEN [model |-> fullySpecifiedName]
    ELSE [model |-> slice(fullySpecifiedName, index + 1, Len(fullySpecifiedName)),
          modelProvider |-> slice(fullySpecifiedName, 0, index)]

\* loadChatModel: the arguments with which initChatModel is called
loadChatModel(fullySpecifiedName) ==
    LET index == indexOf(fullySpecifiedName, "/") IN
    IF index = -1
    THEN [model |-> fullySpecifiedName]
    ELSE [model |-> slice(fullySpecifiedName, index + 1, Len(fullySpecifiedName)),
          modelProvider |-> slice(fullySpecifiedName, 0, index)]

LoadChatModel ==
    /\ ~Returned
    /\ utility.fn = "loadChatModel"
    /\ Returns(loadChatModel(utility.args))
    /\ UNCHANGED <<node, messages, info, loopStep, maxLoops, modelSetsIds,
                   modelOutputs, judgments, completed, topic, extractionSchema,
                   runs>>

\* getTextContent ---------------------------------------------------------

\* a list of content parts, and the list in a nested part, has at most MaxParts parts
MaxParts == 2

\* the texts of text parts and of string contents
Texts == Strings({"a"}, 1)

\* the parts without parts of their own: text parts and a part of another type
PlainParts == { [type |-> "text", text |-> t] : t \in Texts } \cup { [type |-> "image_url"] }

\* the parts: plain ones, and parts of type array with a list of plain parts
ContentParts ==
    PlainParts
    \cup { [type |-> "array", content |-> ps] :
               ps \in UNION { [1..k -> PlainParts] : k \in 0..MaxParts } }

JsArray(items) == [type |-> "array", items |-> items]

\* the contents getTextContent may be given: a string, a list of parts, or
\* something else
Contents ==
    { JsString(t) : t \in Texts }
    \cup { JsArray(ps) : ps \in UNION { [1..k -> ContentParts] : k \in 0..MaxParts } }
    \cup { JsUndefined, JsNull }

\* strings.join(separator)
RECURSIVE join(_, _)
join(strings, separator) ==
    IF strings = << >> THEN << >>
    ELSE IF Len(strings) = 1 THEN strings[1]
    ELSE strings[1] \o separator \o join(Tail(strings), separator)

RECURSIVE getSingleTextContent(_)
getSingleTextContent(content) ==
    IF content.type = "text" THEN content.text
    ELSE IF content.type = "array"
    THEN join([i \in 1..Len(content.content) |->
                  getSingleTextContent(content.content[i])], << " " >>)
    ELSE << >>

\* a variant of getTextContent: the parts that have no text are left out before
\* the texts are joined
getTextContent_SkipsEmpty(content) ==
    IF content.type = "string" THEN content.value
    ELSE IF content.type = "array"
    THEN join(SelectSeq([i \in 1..Len(content.items) |->
                            getSingleTextContent(content.items[i])],
                        LAMBDA t : t # << >>),
              << " " >>)
    ELSE << >>

getTextContent(content) ==
    IF content.type = "string" THEN content.value
    ELSE IF content.type = "array"
    THEN join([i \in 1..Len(content.items) |->
                  getSingleTextContent(content.items[i])], << " " >>)
    ELSE << >>

GetTextContent ==
    /\ ~Returned
    /\ utility.fn = "getTextContent"
    /\ Returns(getTextContent(utility.args))
    /\ UNCHANGED <<node, messages, info, loopStep, maxLoops, modelSetsIds,
                   modelOutputs, judgments, completed, topic, extractionSchema,
                   runs>>

\* curry ------------------------------------------------------------------

\* the values of the keys of partialArg and arg, undefined among them
CurryValues == {Undefined, "partial", "given"}

CurryKeys == {"__state", "url"}

\* the arguments after the first
Rests == { << >>, << "config" >>, << "config", "extra" >> }

\* a variant of curry: the keys of partialArg win, { ...arg, ...partialArg }
curry_PartialWins(partialArg, arg, rest) == << Spread(arg, partialArg) >> \o rest

\* the function curry(fn, partialArg) returns, called with arg and rest: the list
\* of arguments fn is applied to
curry(partialArg, arg, rest) == << Spread(partialArg, arg) >> \o rest

Curry ==
    /\ ~Returned
    /\ utility.fn = "curry"
    /\ Returns(curry(utility.args.partialArg, utility.args.arg, utility.args.rest))
    /\ UNCHANGED <<node, messages, info, loopStep, maxLoops, modelSetsIds,
                   modelOutputs, judgments, completed, topic, extractionSchema,
                   runs>>

\* the calls --------------------------------------------------------------

\* one call of one of the functions, with arguments out of the sets above
UtilityInit ==
    /\ node = "callAgentModel"
    /\ topic \in Topics
    /\ extractionSchema \in Schemas
    /\ runs = NoRuns
    /\ messages = << >>
    /\ info = Undefined
    /\ loopStep = 0
    /\ maxLoops = MaxLoopsBound
    /\ modelSetsIds = TRUE
    /\ modelOutputs = << >>
    /\ judgments = << >>
    /\ completed = << >>
    /\ \/ \E s \in RunStates, c \in ToolCalls :
              utility = CallOf("tool.invoke", [state |-> s, call |-> c])
       \/ \E c \in Configs : utility = CallOf("ensureConfiguration", c)
       \/ \E n \in Strings(NameChars, MaxNameLen) : utility = CallOf("loadChatModel", n)
       \/ \E c \in Contents : utility = CallOf("getTextContent", c)
       \/ \E p \in Objects(CurryKeys, CurryValues),
              a \in Objects(CurryKeys, CurryValues), r \in Rests :
              utility = CallOf("curry", [partialArg |-> p, arg |-> a, rest |-> r])

UtilityNext == InvokeTool \/ EnsureConfiguration \/ LoadChatModel \/ GetTextContent \/ Curry

UtilitySpec == UtilityInit /\ [][UtilityNext]_vars

\* the call of fn has returned
HasReturned(fn) == Returned /\ utility.fn = fn

\* C34: the arguments the tool node invokes a tool with are the arguments of the
\* call and the key __state: every key of the call keeps the value the model
\* gave it, __state included when the model supplied one, and __state is the
\* state of the run when the model supplied none.
C34_CallArgumentsTakePrecedence ==
    HasReturned("tool.invoke") =>
        LET call == utility.args.call
            passed == utility.result.args
        IN  /\ DOMAIN passed = DOMAIN call.args \cup {"__state"}
            /\ \A k \in DOMAIN call.args : passed[k] = call.args[k]
            /\ "__state" \notin DOMAIN call.args => passed["__state"] = utility.args.state
            /\ utility.result.name = call.name
            /\ utility.result.id = call.id

\* C34, witness: the model gave the call a url and a __state of its own; the tool
\* was invoked with both as the model gave them, not with the state of the run.
C34_Witness ==
    /\ HasReturned("tool.invoke")
    /\ DOMAIN utility.args.call.args = {"__state", "url"}
    /\ utility.args.call.args["__state"] = "model-supplied"
    /\ utility.result.args["__state"] = "model-supplied"
    /\ utility.result.args["url"] = "https://example.com"
    /\ utility.args.state = "state"

\* what the caller of ensureConfiguration supplied for the key, undefined if the
\* config or its configurable is not there
SuppliedFor(key) ==
    IF utility.args = JsUndefined THEN JsUndefined
    ELSE IF utility.args.configurable = JsUndefined \/ utility.args.configurable = JsNull
    THEN JsUndefined
    ELSE utility.args.configurable[key]

\* the default of the key
DefaultFor(key) ==
    CASE key = "model" -> DefaultModel
      [] key = "prompt" -> DefaultPrompt
      [] key = "maxSearchResults" -> JsNumber(DefaultMaxSearchResults)
      [] key = "maxInfoToolCalls" -> JsNumber(DefaultMaxInfoToolCalls)
      [] key = "maxLoops" -> JsNumber(DefaultMaxLoops)

\* C35: ensureConfiguration returns, for each of its five keys, the value the
\* caller supplied when that is neither null nor undefined, 0 and the empty
\* string included, and the default of the key otherwise; and given its own
\* result as configurable it returns that result again.
C35_SuppliedValuesAreKept ==
    HasReturned("ensureConfiguration") =>
        /\ DOMAIN utility.result = ConfigKeys
        /\ \A key \in ConfigKeys :
             utility.result[key] =
                 IF SuppliedFor(key).type \in {"undefined", "null"}
                 THEN DefaultFor(key)
                 ELSE SuppliedFor(key)
        /\ ensureConfiguration([configurable |-> utility.result]) = utility.result

\* C35, witness: the caller supplied the empty string as model, 0 as maxLoops,
\* null as maxSearchResults and nothing as maxInfoToolCalls; the result has the
\* empty string, 0, and the defaults 5 and 3.
C35_Witness ==
    /\ HasReturned("ensureConfiguration")
    /\ SuppliedFor("model") = JsString("")
    /\ SuppliedFor("maxLoops") = JsNumber(0)
    /\ SuppliedFor("maxSearchResults") = JsNull
    /\ SuppliedFor("maxInfoToolCalls") = JsUndefined
    /\ utility.result.model = JsString("")
    /\ utility.result.maxLoops = JsNumber(0)
    /\ utility.result.maxSearchResults = JsNumber(DefaultMaxSearchResults)
    /\ utility.result.maxInfoToolCalls = JsNumber(DefaultMaxInfoToolCalls)

\* C36: loadChatModel calls initChatModel with the whole name as the model and
\* no provider when the name has no "/"; otherwise with the text before the
\* first "/" as the provider, which therefore has no "/" in it, and all that
\* comes after that "/" as the model, further "/" included.
C36_NameIsSplitAtFirstSlash ==
    HasReturned("loadChatModel") =>
        LET name == utility.args
            called == utility.result
        IN  IF \A i \in 1..Len(name) : name[i] # "/"
            THEN /\ DOMAIN called = {"model"}
                 /\ called.model = name
            ELSE /\ DOMAIN called = {"model", "modelProvider"}
                 /\ called.modelProvider \o << "/" >> \o called.model = name
                 /\ \A i \in 1..Len(called.modelProvider) : called.modelProvider[i] # "/"

\* C36, witness: the name a/a/a is split into the provider a and the model a/a.
C36_Witness ==
    /\ HasReturned("loadChatModel")
    /\ utility.args = << "a", "/", "a", "/", "a" >>
    /\ utility.result.modelProvider = << "a" >>
    /\ utility.result.model = << "a", "/", "a" >>

\* what a part of a list contributes: its text if it is a text part, nothing if
\* it is of another type; a nested part of type array contributes what
\* getSingleTextContent makes of it
ContributionOf(part) ==
    IF part.type = "text" THEN part.text
    ELSE IF part.type = "array" THEN getSingleTextContent(part)
    ELSE << >>

\* the length of the first n of the texts, each followed by one separator
RECURSIVE LengthBefore(_, _)
LengthBefore(texts, n) ==
    IF n = 0 THEN 0 ELSE LengthBefore(texts, n - 1) + Len(texts[n]) + 1

\* C37: getTextContent returns a string content as it is; for a list of parts it
\* returns the contributions of the parts in list order with one space between
\* each two of them, the contribution of a part that is neither a text part nor
\* a nested list being empty; for any other content it returns the empty string.
C37_TextsJoinedBySpace ==
    HasReturned("getTextContent") =>
        LET content == utility.args
            text == utility.result
        IN  IF content.type = "string" THEN text = content.value
            ELSE IF content.type = "array"
            THEN LET texts == [i \in 1..Len(content.items) |->
                                  ContributionOf(content.items[i])]
                     n == Len(texts)
                 IN  /\ Len(text) = IF n = 0 THEN 0 ELSE LengthBefore(texts, n) - 1
                     /\ \A i \in 1..n :
                          SubSeq(text, LengthBefore(texts, i - 1) + 1,
                                 LengthBefore(texts, i - 1) + Len(texts[i])) = texts[i]
                     /\ \A i \in 1..(n - 1) : text[LengthBefore(texts, i)] = " "
            ELSE text = << >>

\* C37, witness: the content is a part of another type followed by the text part
\* a; the result is a space and a.
C37_Witness ==
    /\ HasReturned("getTextContent")
    /\ utility.args.type = "array"
    /\ Len(utility.args.items) = 2
    /\ utility.args.items[1].type = "image_url"
    /\ utility.args.items[2].type = "text"
    /\ utility.result = << " ", "a" >>

\* C38: the function curry returns applies fn to partialArg overlaid by the
\* caller's argument, followed by the caller's remaining arguments: a key of the
\* caller's argument has the caller's value, a key of partialArg alone has the
\* partial value, there is no other key, and the remaining arguments follow
\* unchanged and in order.
C38_CallerArgumentOverlaysPartial ==
    HasReturned("curry") =>
        LET partialArg == utility.args.partialArg
            arg == utility.args.arg
            rest == utility.args.rest
            applied == utility.result
        IN  /\ Len(applied) = 1 + Len(rest)
            /\ DOMAIN applied[1] = DOMAIN partialArg \cup DOMAIN arg
            /\ \A k \in DOMAIN arg : applied[1][k] = arg[k]
            /\ \A k \in DOMAIN partialArg \ DOMAIN arg : applied[1][k] = partialArg[k]
            /\ \A i \in 1..Len(rest) : applied[i + 1] = rest[i]

\* C38, witness: partialArg has __state and url, the caller gives a url and two
\* more arguments; fn is applied to the partial __state, the caller's url, and
\* the two arguments.
C38_Witness ==
    /\ HasReturned("curry")
    /\ DOMAIN utility.args.partialArg = {"__state", "url"}
    /\ utility.args.partialArg["__state"] = Undefined
    /\ utility.args.partialArg["url"] = "partial"
    /\ DOMAIN utility.args.arg = {"url"}
    /\ utility.args.arg["url"] = "given"
    /\ Len(utility.result) = 3
    /\ utility.result[1]["url"] = "given"
    /\ utility.result[1]["__state"] = Undefined
    /\ utility.result[2] = "config"
    /\ utility.result[3] = "extra"

====
